---- MODULE Spec2Model ----
(***************************************************************************)
(* State-machine model of src/youtube.py: the URL resolver get_video_id,   *)
(* the bounded comment fetch fetch_comments, the summarizer                *)
(* summarize_comments_with_groq, and the Streamlit script that keeps       *)
(* summary / comments / video_id in st.session_state.                      *)
(*                                                                         *)
(* A Python str is a sequence of fragments.  Text that the code inspects   *)
(* (URLs, fault messages) is spelled letter by letter, one one-character   *)
(* string per element; a literal the code only emits is one fragment.      *)
(***************************************************************************)
EXTENDS Integers, Sequences, FiniteSets, TLC

VARIABLES
    call,          \* the last direct call of one of the three functions
    summary,       \* st.session_state.summary
    comments,      \* st.session_state.comments
    video_id,      \* st.session_state.video_id
    summary_src,   \* history: the comments and video the stored summary was made from
    shown          \* what the last script run rendered

vars == <<call, summary, comments, video_id, summary_src, shown>>

----------------------------------------------------------------------------
(* Python values and str operations *)

\* Python's None: a one-fragment value that no text of the model equals.
None == <<"None">>

\* Truthiness of an Optional[str] or Optional[list]: None, "" and [] are falsy.
Truthy(x) == x # None /\ Len(x) > 0

SetMin(S) == CHOOSE x \in S : \A y \in S : x <= y
SetMax(S) == CHOOSE x \in S : \A y \in S : x >= y

\* t in s
Contains(s, t) ==
    \E i \in 0..(Len(s) - Len(t)) : SubSeq(s, i + 1, i + Len(t)) = t

UpperToLower ==
    [A |-> "a", B |-> "b", C |-> "c", D |-> "d", E |-> "e", F |-> "f", G |-> "g",
     H |-> "h", I |-> "i", J |-> "j", K |-> "k", L |-> "l", M |-> "m", N |-> "n",
     O |-> "o", P |-> "p", Q |-> "q", R |-> "r", S |-> "s", T |-> "t", U |-> "u",
     V |-> "v", W |-> "w", X |-> "x", Y |-> "y", Z |-> "z"]

\* s.lower()
Lower(s) ==
    [i \in 1..Len(s) |-> IF s[i] \in DOMAIN UpperToLower THEN UpperToLower[s[i]] ELSE s[i]]

\* s.split(c)[-1]: what follows the last c, the whole of s when it holds no c
SplitLast(s, c) ==
    LET at == {i \in 1..Len(s) : s[i] = c}
    IN  IF at = {} THEN s ELSE SubSeq(s, SetMax(at) + 1, Len(s))

\* s.split(c)[0]: what precedes the first c, the whole of s when it holds no c
SplitFirst(s, c) ==
    LET at == {i \in 1..Len(s) : s[i] = c}
    IN  IF at = {} THEN s ELSE SubSeq(s, 1, SetMin(at) - 1)

\* s[:n]
Take(s, n) == SubSeq(s, 1, IF Len(s) < n THEN Len(s) ELSE n)

----------------------------------------------------------------------------
(* Texts the code looks for or that the inputs are built from *)

T_youtu_be == <<"y", "o", "u", "t", "u", ".", "b", "e">>
T_https == <<"h", "t", "t", "p", "s", ":", "/", "/">>
T_www_youtube_com == <<"w", "w", "w", ".", "y", "o", "u", "t", "u", "b", "e", ".", "c", "o", "m">>
T_watch_v == <<"/", "w", "a", "t", "c", "h", "?", "v", "=">>
T_abc123 == <<"a", "b", "c", "1", "2", "3">>
T_xyz == <<"x", "y", "z">>
T_t30 == <<"t", "=", "3", "0">>
T_feature == <<"f", "e", "a", "t", "u", "r", "e", "=", "y", "o", "u", "t", "u", ".", "b", "e">>
T_list == <<"l", "i", "s", "t", "=", "a", "/", "b">>
T_v_zz == <<"v", "=", "z", "z">>
T_rate_limit == <<"r", "a", "t", "e", " ", "l", "i", "m", "i", "t">>
T_Rate_Limit == <<"R", "a", "t", "e", " ", "L", "i", "m", "i", "t">>
T_RATE_LIMIT == <<"R", "A", "T", "E", " ", "L", "I", "M", "I", "T">>
T_authentication == <<"a", "u", "t", "h", "e", "n", "t", "i", "c", "a", "t", "i", "o", "n">>
T_api_key == <<"a", "p", "i", " ", "k", "e", "y">>
T_API_Key == <<"A", "P", "I", " ", "K", "e", "y">>
T_model == <<"m", "o", "d", "e", "l">>
T_Video_unavailable == <<"V", "i", "d", "e", "o", " ", "u", "n", "a", "v", "a", "i", "l", "a", "b", "l", "e">>
T_video_unavailable == <<"v", "i", "d", "e", "o", " ", "u", "n", "a", "v", "a", "i", "l", "a", "b", "l", "e">>
T_comments_are_disabled == <<"c", "o", "m", "m", "e", "n", "t", "s", " ", "a", "r", "e", " ", "d", "i", "s", "a", "b", "l", "e", "d">>
T_Comments_Are_Disabled == <<"C", "o", "m", "m", "e", "n", "t", "s", " ", "A", "r", "e", " ", "D", "i", "s", "a", "b", "l", "e", "d">>
T_timeout == <<"t", "i", "m", "e", "o", "u", "t">>

----------------------------------------------------------------------------
(* get_video_id *)

\* re.search(r"v=([^&]+)", s): the leftmost "v=" that a character other than
\* '&' follows; group 1 runs from there to the next '&' or the end of s.
re_search_v(s) ==
    LET starts == {i \in 1..(Len(s) - 2) :
                      s[i] = "v" /\ s[i + 1] = "=" /\ s[i + 2] # "&"}
    IN  IF starts = {}
        THEN [matched |-> FALSE, group1 |-> <<>>]
        ELSE LET b    == SetMin(starts) + 2
                 amps == {j \in b..Len(s) : s[j] = "&"}
                 e    == IF amps = {} THEN Len(s) ELSE SetMin(amps) - 1
             IN  [matched |-> TRUE, group1 |-> SubSeq(s, b, e)]

get_video_id(url) ==
    IF ~Truthy(url) THEN None
    ELSE IF Contains(url, T_youtu_be)
         THEN SplitFirst(SplitLast(url, "/"), "?")
         ELSE LET match == re_search_v(url)
              IN  IF match.matched THEN match.group1 ELSE None

\* The URLs the resolver is tried on: prefix, path, identifier, separator and
\* rest, each drawn from a few texts, and the absent input.
UrlPrefixes ==
    { <<>>, T_https \o T_www_youtube_com, T_https \o T_youtu_be,
      T_https \o <<"m", ".", "c", "o", "/", "?">> \o T_v_zz \o <<"&", "u", "=">>,
      T_youtu_be }
UrlPaths == { <<>>, <<"/">>, T_watch_v }
UrlIds == { <<>>, T_abc123, T_xyz }
UrlSeps == { <<>>, <<"&">>, <<"?">> }
UrlRests == { <<>>, T_t30, T_feature, T_list, T_v_zz, <<"x", "?", "y">> }

Urls ==
    { p \o w \o i \o s \o r :
        p \in UrlPrefixes, w \in UrlPaths, i \in UrlIds, s \in UrlSeps, r \in UrlRests }
    \cup {None}

\* get_video_id(url) is called on the chosen url and returns.
GetVideoId ==
    /\ call.op = "get_video_id" /\ ~call.done
    /\ call' = [call EXCEPT !.done = TRUE, !.ret = get_video_id(call.url)]
    /\ UNCHANGED <<summary, comments, video_id, summary_src, shown>>

----------------------------------------------------------------------------
(* Bounds of the inputs *)

MaxItems == 4        \* records a finite comment source holds, at most
MaxCap == 3          \* largest max_comments of a direct fetch_comments call
MaxFrags == 2        \* fragments a fault message is put together from, at most

SeqsUpTo(S, n) == UNION {[1..k -> S] : k \in 0..n}

RECURSIVE Concat(_)
Concat(ss) == IF ss = <<>> THEN <<>> ELSE Head(ss) \o Concat(Tail(ss))

\* The fault messages put together from at most n of the fragments.
MsgsOf(frags, n) == {Concat(f) : f \in SeqsUpTo(frags, n)}

----------------------------------------------------------------------------
(* The comment source: YoutubeCommentDownloader for one video and sort order *)

\* The records a source yields; fetch_comments reads their 'text'.
Records ==
    { [cid |-> 1, text |-> <<"h", "i">>], [cid |-> 2, text |-> <<"o", "k">>] }

\* What an unbounded source goes on yielding after its listed items.
Filler == [cid |-> 0, text |-> <<"z">>]

\* stage "ctor": YoutubeCommentDownloader() raises; "get": get_comments raises;
\* "ok": the generator yields items and then ends (tail "exhaust"), raises
\* (tail "fault") or never ends (tail "more").
SourcesOf(maxItems, msgs) ==
    { [stage |-> "ok", items |-> it, tail |-> t, msg |-> <<>>] :
        it \in SeqsUpTo(Records, maxItems), t \in {"exhaust", "more"} }
    \cup
    { [stage |-> "ok", items |-> it, tail |-> "fault", msg |-> m] :
        it \in SeqsUpTo(Records, maxItems), m \in msgs }
    \cup
    { [stage |-> st, items |-> <<>>, tail |-> "exhaust", msg |-> m] :
        st \in {"ctor", "get"}, m \in msgs }

FetchFrags == { T_Video_unavailable, T_video_unavailable, T_comments_are_disabled,
                T_Comments_Are_Disabled, T_timeout }

Sources == SourcesOf(MaxItems, MsgsOf(FetchFrags, MaxFrags))

\* The i-th next() on the generator.
Pull(src, i) ==
    IF i <= Len(src.items) THEN [kind |-> "item", rec |-> src.items[i], msg |-> <<>>]
    ELSE IF src.tail = "more" THEN [kind |-> "item", rec |-> Filler, msg |-> <<>>]
    ELSE IF src.tail = "fault" THEN [kind |-> "raise", rec |-> Filler, msg |-> src.msg]
    ELSE [kind |-> "stop", rec |-> Filler, msg |-> <<>>]

----------------------------------------------------------------------------
(* fetch_comments *)

R_no_comments ==
    <<"No comments found. The video might have comments disabled or be private.">>
R_video_unavailable == <<"Video not found or is private/unavailable.">>
R_comments_disabled == <<"Comments are disabled for this video.">>
R_fetch_error(error_msg) == <<"Error fetching comments: ">> \o error_msg

\* Mutant: the text is put in front of the list instead of behind it.
AppendText_Front(comments_list, comment) == <<comment.text>> \o comments_list

\* comments_list.append(comment['text'])
AppendText(comments_list, comment) == Append(comments_list, comment.text)

\* Mutant: the cap is tested with > instead of >=.
CapReached_Late(comments_list, max_comments) == Len(comments_list) > max_comments

\* len(comments_list) >= max_comments
CapReached(comments_list, max_comments) == Len(comments_list) >= max_comments

\* The for loop over comments_gen, from the (pulled+1)-th next() on.
RECURSIVE fetch_loop(_, _, _, _)
fetch_loop(src, max_comments, comments_list, pulled) ==
    LET nxt == Pull(src, pulled + 1)
    IN  CASE nxt.kind = "stop" ->
               [raised |-> FALSE, msg |-> <<>>, list |-> comments_list, pulls |-> pulled + 1]
          [] nxt.kind = "raise" ->
               [raised |-> TRUE, msg |-> nxt.msg, list |-> comments_list, pulls |-> pulled + 1]
          [] nxt.kind = "item" ->
               LET appended == AppendText(comments_list, nxt.rec)
               IN  IF CapReached(appended, max_comments)
                   THEN [raised |-> FALSE, msg |-> <<>>, list |-> appended,
                         pulls |-> pulled + 1]
                   ELSE fetch_loop(src, max_comments, appended, pulled + 1)

\* Mutant: the test for an empty list is missing.
FetchReturn_NoEmptyTest(comments_list) == [batch |-> comments_list, reason |-> None]

\* The returns of the try block once the loop has ended.
FetchReturn(comments_list) ==
    IF ~Truthy(comments_list)
    THEN [batch |-> <<>>, reason |-> R_no_comments]
    ELSE [batch |-> comments_list, reason |-> None]

\* Mutant: the except block hands back what the loop had collected.
FetchExcept_KeepPartial(comments_list, error_msg) ==
    [batch |-> comments_list, reason |-> R_fetch_error(error_msg)]

\* The except block; comments_list is what the loop had collected.
FetchExcept(comments_list, error_msg) ==
    IF Contains(error_msg, T_Video_unavailable)
    THEN [batch |-> <<>>, reason |-> R_video_unavailable]
    ELSE IF Contains(Lower(error_msg), T_comments_are_disabled)
         THEN [batch |-> <<>>, reason |-> R_comments_disabled]
         ELSE [batch |-> <<>>, reason |-> R_fetch_error(error_msg)]

\* fetch_comments(video_id, max_comments, sort_by), src being what the
\* downloader does for that video and sort order.  escaped: an exception left
\* the function; pulls: the next() calls made on the generator.
fetch_comments(vid, max_comments, sort_by, src) ==
    IF src.stage = "ctor"
    THEN [escaped |-> TRUE, batch |-> None, reason |-> None, pulls |-> 0]
    ELSE IF src.stage = "get"
    THEN LET r == FetchExcept(<<>>, src.msg)
         IN  [escaped |-> FALSE, batch |-> r.batch, reason |-> r.reason, pulls |-> 0]
    ELSE LET run == fetch_loop(src, max_comments, <<>>, 0)
             r   == IF run.raised THEN FetchExcept(run.list, run.msg)
                    ELSE FetchReturn(run.list)
         IN  [escaped |-> FALSE, batch |-> r.batch, reason |-> r.reason,
              pulls |-> run.pulls]

SortBys == {0, 1}

\* What a call holds before it has returned.
NoOut == [escaped |-> FALSE, batch |-> None, reason |-> None, pulls |-> 0]

\* fetch_comments(video_id, max_comments, sort_by) is called on the chosen
\* arguments and comment source, and returns or raises.
FetchComments ==
    /\ call.op = "fetch_comments" /\ ~call.done
    /\ call' = [call EXCEPT !.done = TRUE,
                            !.out = fetch_comments(call.video_id, call.max_comments,
                                                   call.sort_by, call.src)]
    /\ UNCHANGED <<summary, comments, video_id, summary_src, shown>>

----------------------------------------------------------------------------
(* The completion service: Groq(api_key=...).chat.completions.create *)

\* stage "ctor": Groq(api_key=...) raises; "fault": create raises msg;
\* "ok": create returns a completion whose first choice holds content.
GroqsOf(msgs, contents) ==
    { [stage |-> st, msg |-> m, content |-> None] :
        st \in {"ctor", "fault"}, m \in msgs }
    \cup
    { [stage |-> "ok", msg |-> <<>>, content |-> c] : c \in contents }

SumFrags == { T_rate_limit, T_Rate_Limit, T_RATE_LIMIT, T_authentication,
              T_api_key, T_API_Key, T_model, T_timeout }

Contents == { <<"Summary: positive">>, <<"Summary: mixed">>, <<>> }

Groqs == GroqsOf(MsgsOf(SumFrags, MaxFrags), Contents)

\* The options of the model selectbox.
Models == { <<"llama-3.3-70b-versatile">>, <<"gemma2-9b-it">>, <<"mixtral-8x7b-32768">> }

----------------------------------------------------------------------------
(* summarize_comments_with_groq *)

TruncLen == 200      \* comment[:200]
MaxTokens == 1500    \* max_tokens=1500

R_nothing_to_summarize == <<"No comments to summarize.">>
R_invalid_key == <<"Invalid API key. Check your Groq API credentials.">>
R_rate_limit == <<"Rate limit exceeded. Wait a moment and try again.">>
R_model(model_name) == <<"Model '">> \o model_name \o <<"' not found or not accessible.">>
R_api_error(error_msg) == <<"API Error: ">> \o error_msg

\* chr(10).join(f"- {comment[:200]}" for comment in comments)
RECURSIVE JoinComments(_)
JoinComments(cs) ==
    IF cs = <<>> THEN <<>>
    ELSE <<"- ">> \o Take(Head(cs), TruncLen)
         \o (IF Tail(cs) = <<>> THEN <<>> ELSE <<"\n">> \o JoinComments(Tail(cs)))

\* The prompt f-string.
BuildPrompt(cs, instructions) ==
    <<"You are a professional content analyst. Analyze these YouTube comments and provide: ...">>
    \o (IF Truthy(instructions)
        THEN <<"\n\nAdditional Instructions: ">> \o instructions ELSE <<>>)
    \o <<"\n\nComments to analyze:\n">> \o JoinComments(cs) \o <<"\n">>

\* Mutant: the unknown-model test comes before the rate-limit test.
SummarizeExcept_ModelFirst(error_msg, model_name) ==
    LET low == Lower(error_msg)
    IN  IF Contains(low, T_authentication) \/ Contains(low, T_api_key)
        THEN R_invalid_key
        ELSE IF Contains(low, T_model) THEN R_model(model_name)
        ELSE IF Contains(low, T_rate_limit) THEN R_rate_limit
        ELSE R_api_error(error_msg)

\* The except block: the failure reason for the fault's message.
SummarizeExcept(error_msg, model_name) ==
    LET low == Lower(error_msg)
    IN  IF Contains(low, T_authentication) \/ Contains(low, T_api_key)
        THEN R_invalid_key
        ELSE IF Contains(low, T_rate_limit) THEN R_rate_limit
        ELSE IF Contains(low, T_model) THEN R_model(model_name)
        ELSE R_api_error(error_msg)

NoRequest == [model |-> None, prompt |-> None, temperature |-> None, max_tokens |-> 0]

\* summarize_comments_with_groq(groq_api_key, model_name, comments,
\* instructions), groq being what the completion service does.  escaped: an
\* exception left the function; request: what create was called with.
summarize_comments_with_groq(groq_api_key, model_name, cs, instructions, groq) ==
    IF ~Truthy(cs)
    THEN [escaped |-> FALSE, value |-> None, reason |-> R_nothing_to_summarize,
          request |-> NoRequest]
    ELSE IF groq.stage = "ctor"
    THEN [escaped |-> TRUE, value |-> None, reason |-> None, request |-> NoRequest]
    ELSE LET request == [model |-> model_name, prompt |-> BuildPrompt(cs, instructions),
                         temperature |-> <<"0.5">>, max_tokens |-> MaxTokens]
         IN  IF groq.stage = "fault"
             THEN [escaped |-> FALSE, value |-> None,
                   reason |-> SummarizeExcept(groq.msg, model_name),
                   request |-> request]
             ELSE [escaped |-> FALSE, value |-> groq.content, reason |-> None,
                   request |-> request]

NoSummary == [escaped |-> FALSE, value |-> None, reason |-> None, request |-> NoRequest]

ApiKeys == { <<"g", "s", "k", "_", "1">> }
Instructions == { <<>>, <<"Focus on technical feedback only">> }
Batches == { <<>>, << <<"h", "i">> >>, << <<"h", "i">>, <<"o", "k">> >> }

\* summarize_comments_with_groq is called on the chosen arguments and
\* completion service, and returns or raises.
Summarize ==
    /\ call.op = "summarize_comments_with_groq" /\ ~call.done
    /\ call' = [call EXCEPT !.done = TRUE,
                            !.out = summarize_comments_with_groq(
                                        call.groq_api_key, call.model_name,
                                        call.comments, call.instructions, call.groq)]
    /\ UNCHANGED <<summary, comments, video_id, summary_src, shown>>

----------------------------------------------------------------------------
(* Session state *)

\* The summary's origin while the session holds no summary of a run.
NoSource == [comments |-> None, video_id |-> None]

\* A script run that renders no report, and one that renders nothing at all.
NoReport == [summary |-> None, comments |-> None, file_id |-> None]
NothingShown == [exception |-> FALSE, error |-> None, report |-> NoReport]

\* A new session holds no summary, no comments and no video id.
SessionInit ==
    /\ summary = None
    /\ comments = None
    /\ video_id = None
    /\ summary_src = NoSource
    /\ shown = NothingShown

----------------------------------------------------------------------------
(* The Streamlit script: one action per script run *)

SliderMin == 10      \* min_value=10
SliderMax == 200     \* max_value=200
SliderStep == 10     \* step=10
MaxSliderSteps == 1  \* slider positions above the lowest that a run may choose
AppMaxItems == 1     \* records a finite comment source of a run holds, at most

\* The positions of the "Max Comments to Fetch" slider that a run may choose.
SliderValues ==
    {SliderMin + k * SliderStep : k \in 0..MaxSliderSteps} \cap SliderMin..SliderMax

SortOrders == {"Popular", "Newest"}

T_not_a_url == <<"n", "o", "t", "a", "u", "r", "l">>

\* What the user may have typed in the url field and the key field.
AppUrls ==
    { <<>>, T_not_a_url,
      T_https \o T_www_youtube_com \o T_watch_v \o T_abc123 \o <<"&">> \o T_t30,
      T_https \o T_youtu_be \o <<"/">> \o T_xyz }
AppKeys == ApiKeys \cup {<<>>}

\* The model a run has selected: the selectbox's default, index=1.
AppModels == { <<"gemma2-9b-it">> }

\* The instructions text area of a run: left empty.
AppInstructions == { <<>> }

AppSources == SourcesOf(AppMaxItems, {T_timeout})
AppGroqs == GroqsOf({T_timeout}, Contents \ {<<>>})

R_invalid_url ==
    <<"Invalid YouTube URL. Make sure it's in the format: youtube.com/watch?v=... or youtu.be/...">>

\* Lines 250-274: the report shown and offered for download, made from the
\* three session values, when the session holds a summary.
Render(sum, cs, vid) ==
    IF Truthy(sum)
    THEN [summary |-> sum, comments |-> cs, file_id |-> vid]
    ELSE NoReport

\* Lines 206-247: what the analyze handler leaves in the session.  aborted:
\* an exception ended the script run; error: the text given to st.error.
AnalyzeRun(url, key, model_name, max_comments, sort_order, instructions, src, groq) ==
    LET vid  == get_video_id(url)
        same == [aborted |-> FALSE, error |-> None, summary |-> summary,
                 comments |-> comments, video_id |-> video_id, source |-> summary_src]
    IN  IF ~Truthy(vid) THEN [same EXCEPT !.error = R_invalid_url]
        ELSE
        LET sort_by == IF sort_order = "Newest" THEN 1 ELSE 0
            f == fetch_comments(vid, max_comments, sort_by, src)
        IN  IF f.escaped THEN [same EXCEPT !.aborted = TRUE]
            ELSE IF Truthy(f.reason) THEN [same EXCEPT !.error = f.reason]
            ELSE IF ~Truthy(f.batch) THEN same
            ELSE
            LET kept == [same EXCEPT !.comments = f.batch, !.video_id = vid]
                g == summarize_comments_with_groq(key, model_name, f.batch,
                                                  instructions, groq)
            IN  IF g.escaped THEN [kept EXCEPT !.aborted = TRUE]
                ELSE IF Truthy(g.reason) THEN [kept EXCEPT !.error = g.reason]
                ELSE [kept EXCEPT !.summary = g.value,
                                  !.source = [comments |-> f.batch, video_id |-> vid]]

\* The user clicks "Analyze Comments": one script run with analyze_button set.
\* The button is enabled only with a url and a key typed in.
Analyze ==
    \E url \in AppUrls, key \in AppKeys :
        /\ Truthy(url) /\ Truthy(key)
        /\ \E model_name \in AppModels, max_comments \in SliderValues,
              sort_order \in SortOrders, instructions \in AppInstructions,
              src \in AppSources, groq \in AppGroqs :
              \E r \in {AnalyzeRun(url, key, model_name, max_comments, sort_order,
                                   instructions, src, groq)} :
                  /\ summary' = r.summary
                  /\ comments' = r.comments
                  /\ video_id' = r.video_id
                  /\ summary_src' = r.source
                  /\ shown' = IF r.aborted
                              THEN [exception |-> TRUE, error |-> None,
                                    report |-> NoReport]
                              ELSE [exception |-> FALSE, error |-> r.error,
                                    report |-> Render(r.summary, r.comments,
                                                      r.video_id)]
        /\ UNCHANGED call

\* The user touches another widget: one script run without analyze_button.
Rerun ==
    /\ shown' = [exception |-> FALSE, error |-> None,
                 report |-> Render(summary, comments, video_id)]
    /\ UNCHANGED <<call, summary, comments, video_id, summary_src>>

\* The user clicks "Analyze Another Video", which the last run rendered with
\* the report: the session is cleared and st.rerun() runs the script again.
Reset ==
    /\ shown.report # NoReport
    /\ summary' = None
    /\ comments' = None
    /\ video_id' = None
    /\ summary_src' = NoSource
    /\ shown' = NothingShown
    /\ UNCHANGED call

----------------------------------------------------------------------------
(* Specifications *)

\* The resolver on every url of Urls.
InitResolver ==
    /\ SessionInit
    /\ call \in {[op |-> "get_video_id", done |-> FALSE, url |-> u, ret |-> None] :
                    u \in Urls}

NextResolver == GetVideoId

SpecResolver == InitResolver /\ [][NextResolver]_vars

\* The fetcher on every source of Sources and every cap 0..MaxCap.
InitFetch ==
    /\ SessionInit
    /\ call \in {[op |-> "fetch_comments", done |-> FALSE, video_id |-> T_abc123,
                  max_comments |-> m, sort_by |-> sb, src |-> src, out |-> NoOut] :
                    m \in 0..MaxCap, sb \in SortBys, src \in Sources}

NextFetch == FetchComments

SpecFetch == InitFetch /\ [][NextFetch]_vars

\* The summarizer on every completion outcome of Groqs.
InitSummarize ==
    /\ SessionInit
    /\ call \in {[op |-> "summarize_comments_with_groq", done |-> FALSE,
                  groq_api_key |-> k, model_name |-> m, comments |-> cs,
                  instructions |-> ins, groq |-> g, out |-> NoSummary] :
                    k \in ApiKeys, m \in Models, cs \in Batches,
                    ins \in Instructions, g \in Groqs}

NextSummarize == Summarize

SpecSummarize == InitSummarize /\ [][NextSummarize]_vars

\* Both functions that stand between the script and its collaborators.
InitBoundary ==
    /\ SessionInit
    /\ call \in
         {[op |-> "fetch_comments", done |-> FALSE, video_id |-> T_abc123,
           max_comments |-> m, sort_by |-> sb, src |-> src, out |-> NoOut] :
             m \in 1..MaxCap, sb \in SortBys, src \in Sources}
         \cup
         {[op |-> "summarize_comments_with_groq", done |-> FALSE,
           groq_api_key |-> k, model_name |-> m, comments |-> cs,
           instructions |-> ins, groq |-> g, out |-> NoSummary] :
             k \in ApiKeys, m \in Models, cs \in Batches,
             ins \in Instructions, g \in Groqs}

NextBoundary == FetchComments \/ Summarize

SpecBoundary == InitBoundary /\ [][NextBoundary]_vars

\* The script, run after run, in one session.
InitApp ==
    /\ SessionInit
    /\ call = [op |-> "none", done |-> TRUE]

NextApp == Analyze \/ Rerun \/ Reset

SpecApp == InitApp /\ [][NextApp]_vars

----------------------------------------------------------------------------
(* Claims about get_video_id, checked under SpecResolver *)

Resolved == call.op = "get_video_id" /\ call.done

\* C6 (as claimed): for every url <prefix>/watch?v=ID&<extra>, ID non-empty and
\* without '&', get_video_id returns exactly ID, whatever prefix and extra hold.
C6_CanonicalLinkReturnsId ==
    Resolved =>
        \A p \in UrlPrefixes, i \in UrlIds \ {<<>>}, r \in UrlRests :
            call.url = p \o T_watch_v \o i \o <<"&">> \o r => call.ret = i

\* C7 (as claimed): for every url https://youtu.be/ID?<extra>, ID non-empty and
\* without '/' or '?', get_video_id returns exactly ID, whatever extra holds.
C7_ShortLinkReturnsId ==
    Resolved =>
        \A i \in UrlIds \ {<<>>}, r \in UrlRests :
            call.url = T_https \o T_youtu_be \o <<"/">> \o i \o <<"?">> \o r
                => call.ret = i

\* C8 (as claimed): get_video_id returns None for an empty or absent url and
\* for a short link whose last path segment is empty; a returned string is
\* never empty.
C8_NoneWhenNoIdentifier ==
    Resolved =>
        /\ ~Truthy(call.url) => call.ret = None
        /\ call.ret # None => Len(call.ret) > 0

----------------------------------------------------------------------------
(* Claims about fetch_comments, checked under SpecFetch *)

Fetched == call.op = "fetch_comments" /\ call.done
Returned == Fetched /\ ~call.out.escaped

\* The texts of the first n records the source yields, in the source's order.
Texts(src, n) == [i \in 1..n |-> Pull(src, i).rec.text]

\* C1: a fetch with max_comments > 0 returns at most max_comments comments,
\* and when it returns no failure reason it returns at least one comment.
C1_BatchBounded ==
    (Returned /\ call.max_comments > 0) =>
        /\ Len(call.out.batch) <= call.max_comments
        /\ call.out.reason = None => 1 <= Len(call.out.batch)

\* C1 witness: a source holding more records than the cap was fetched from
\* successfully and the batch is exactly as long as the cap.
C1_Witness ==
    /\ Returned /\ call.max_comments > 0
    /\ call.src.stage = "ok" /\ Len(call.src.items) > call.max_comments
    /\ call.out.reason = None
    /\ Len(call.out.batch) = call.max_comments

\* The source yields more than max_comments items, or faults on the pull
\* after the max_comments-th item.
YieldsBeyondCap ==
    /\ call.src.stage = "ok"
    /\ \/ Len(call.src.items) > call.max_comments
       \/ call.src.tail = "more"
       \/ Len(call.src.items) = call.max_comments /\ call.src.tail = "fault"

\* C2: from a source that yields more than max_comments items (max_comments
\* > 0) the fetch returns exactly max_comments comments and no failure reason,
\* and makes no pull after the max_comments-th; a fault waiting on the next
\* pull is never raised.
C2_StopsAtCap ==
    (Fetched /\ call.max_comments > 0 /\ YieldsBeyondCap) =>
        /\ ~call.out.escaped
        /\ call.out.reason = None
        /\ Len(call.out.batch) = call.max_comments
        /\ call.out.pulls = call.max_comments

\* C2 witness: the source faults on pull max_comments + 1 and the fetch has
\* returned max_comments comments without a failure reason.
C2_Witness ==
    /\ Fetched /\ call.max_comments > 1
    /\ call.src.stage = "ok" /\ call.src.tail = "fault"
    /\ Len(call.src.items) = call.max_comments
    /\ call.out.reason = None
    /\ call.out.pulls = call.max_comments

\* C3: from a source that yields K records and then ends, 1 <= K <
\* max_comments, the fetch returns no failure reason and the K texts in the
\* source's order.
C3_ShortSourceInOrder ==
    (Fetched /\ call.src.stage = "ok" /\ call.src.tail = "exhaust"
        /\ 1 <= Len(call.src.items) /\ Len(call.src.items) < call.max_comments) =>
        /\ ~call.out.escaped
        /\ call.out.reason = None
        /\ call.out.batch = Texts(call.src, Len(call.src.items))

\* C3 witness: two records with different texts were fetched below the cap.
C3_Witness ==
    /\ Fetched /\ call.src.stage = "ok" /\ call.src.tail = "exhaust"
    /\ Len(call.src.items) = 2 /\ call.max_comments > 2
    /\ call.src.items[1].text # call.src.items[2].text
    /\ call.out.reason = None
    /\ Len(call.out.batch) = 2

\* C10: every return of fetch_comments is a non-empty batch without a failure
\* reason or the empty batch with a non-empty failure reason; a fault after j
\* collected comments, 1 <= j < max_comments, gives the empty batch and the
\* reason that goes with the fault's message.
C10_AllOrNothing ==
    Returned =>
        /\ \/ Len(call.out.batch) > 0 /\ call.out.reason = None
           \/ call.out.batch = <<>> /\ Truthy(call.out.reason)
        /\ (call.src.stage = "ok" /\ call.src.tail = "fault"
              /\ 1 <= Len(call.src.items) /\ Len(call.src.items) < call.max_comments) =>
                /\ call.out.batch = <<>>
                /\ call.out.reason \in
                      {R_video_unavailable, R_comments_disabled,
                       R_fetch_error(call.src.msg)}

\* C10 witness: the source faulted after two comments had been collected and
\* the fetch returned the empty batch with a failure reason.
C10_Witness ==
    /\ Returned /\ call.src.stage = "ok" /\ call.src.tail = "fault"
    /\ Len(call.src.items) = 2 /\ call.max_comments > 2
    /\ call.out.pulls = 3
    /\ call.out.batch = <<>>
    /\ call.out.reason # None

----------------------------------------------------------------------------
(* Claims about summarize_comments_with_groq, checked under SpecSummarize *)

\* The completions call of a finished summarize call raised call.groq.msg.
CreateRaised ==
    /\ call.op = "summarize_comments_with_groq" /\ call.done
    /\ Truthy(call.comments)
    /\ call.groq.stage = "fault"

\* The message holds the words in one of the letter cases the messages of the
\* model are written in.
Mentions(msg, spellings) == \E t \in spellings : Contains(msg, t)

RateLimitSpellings == {T_rate_limit, T_Rate_Limit, T_RATE_LIMIT}
CredentialSpellings == {T_authentication, T_api_key, T_API_Key}

\* C5 (as claimed): when the completions call raises a message that holds
\* "rate limit" in any letter case, the reason is the rate-limit reason,
\* whatever else the message holds.
C5_RateLimitAlways ==
    (CreateRaised /\ Mentions(call.groq.msg, RateLimitSpellings)) =>
        call.out.reason = R_rate_limit

\* C5 (amended): when the completions call raises a message that holds "rate
\* limit" in any letter case and neither "authentication" nor "api key" in any
\* letter case, the reason is the rate-limit reason, also when the message
\* holds "model".
C5_RateLimitUnlessCredential ==
    (CreateRaised /\ Mentions(call.groq.msg, RateLimitSpellings)
        /\ ~Mentions(call.groq.msg, CredentialSpellings)) =>
        call.out.reason = R_rate_limit

\* C5 witness: a message holding "Rate Limit" and "model" got the rate-limit
\* reason.
C5_Witness ==
    /\ CreateRaised
    /\ Contains(call.groq.msg, T_Rate_Limit) /\ Contains(call.groq.msg, T_model)
    /\ call.out.reason = R_rate_limit

----------------------------------------------------------------------------
(* Claim about both functions, checked under SpecBoundary *)

\* C4 (as claimed): no fault of a collaborator leaves fetch_comments or
\* summarize_comments_with_groq: every call returns a pair whose reason is
\* None or one of the categorized reasons.
C4_NoFaultEscapes ==
    call.done => ~call.out.escaped

----------------------------------------------------------------------------
(* Claim about the session, checked under SpecApp *)

\* C9 (as claimed): whenever the session holds a summary, it is the summary
\* made from the comments and for the video that the session holds, and the
\* report shown is made of that summary, those comments and that video.
C9_SummaryMatchesSession ==
    /\ summary # None =>
          /\ summary_src.comments = comments
          /\ summary_src.video_id = video_id
    /\ shown.report # NoReport =>
          /\ shown.report.summary = summary
          /\ summary_src.comments = shown.report.comments
          /\ summary_src.video_id = shown.report.file_id

====
